---- MODULE Spec2Model ----
(***************************************************************************)
(* The lazy extraction pipeline of the "custom document loader" notebook:  *)
(* CustomDocumentLoader (a standalone loader reading a text file line by   *)
(* line), MyParser (a blob parser yielding one Document per line of a      *)
(* binary stream), and GenericLoader (a blob loader composed with a        *)
(* parser).  Python generators are modelled by their suspended state and   *)
(* one resume operator per generator function; one consumer request (a     *)
(* call of next()) is one action.  The coroutine of the async generator    *)
(* takes one step from each await to the next.                             *)
(*                                                                         *)
(* Bytes and characters are integers (byte values, code points); a byte    *)
(* string and a text are sequences of them.                                *)
(***************************************************************************)
EXTENDS Integers, Sequences, FiniteSets, TLC

VARIABLES
    fs,         \* the file system: path -> bytes of the file
    loader,     \* which object the consumer drives (see Loaders)
    listing,    \* paths the blob loader's glob matches, in listing order
    failAt,     \* k > 0: the storage fails when the k-th blob is requested
    gen,        \* state of the generator the consumer iterates
    out,        \* items the consumer has received from the generator
    outIdx,     \* outIdx[k]: the listed item that out[k] was parsed from
    requests,   \* number of next() calls the consumer has made
    resolved,   \* resolved[i]: times the payload of listed item i was opened
    err,        \* the exception the generator raised to the consumer
    loaded,     \* outcome of the last loader.load(), NotCalled before it
    file_path,  \* CustomDocumentLoader.file_path
    blob,       \* the Blob handed directly to MyParser.lazy_parse
    iters,      \* iters[k]: state of the k-th further generator (see Init)
    recv,       \* recv[k]: Documents received from the k-th generator
    errs,       \* errs[k]: the exception the k-th generator raised
    abandoned   \* the iterations given up: how many, of which generators,
                \* and after how many records the last of them

vars == <<fs, loader, listing, failAt, gen, out, outIdx, requests, resolved,
          err, loaded, file_path, blob, iters, recv, errs, abandoned>>

----------------------------------------------------------------------------
(* Bounds of the model. *)

MaxLen == 3             \* longest payload of a blob parsed directly
MaxFileLen == 2         \* longest file in the pipeline's file system
MaxBlobs == 2           \* most items a blob loader lists
MaxExtraRequests == 1   \* next() calls made after the generator has ended
MaxAbandoned == 1       \* iterations a consumer gives up before their end

----------------------------------------------------------------------------
(* Values. *)

LF == 10
CR == 13

None == "None"
NotCalled == [status |-> "not called", docs |-> "NoItem", error |-> "NoItem"]
NoItem == "NoItem"

Paths == {"f1", "f2"}

\* Byte values used in payloads: LF, CR, "a", and the two bytes of the
\* UTF-8 encoding of U+00E9, each of which is invalid on its own.
Bytes == {LF, CR, 97, 195, 169}
FileBytes == {LF, 97, 195}

BoundedSeq(S, n) == UNION {[1..k -> S] : k \in 0..n}

\* The payloads the notebook and the specification use as examples.
ExampleABC == <<97, LF, 98, LF, 99>>
ExampleMeow == <<109, 101, 111, 119, 240, 159, 144, 177, 32, LF, 32, 109, 101, 111, 119>>

Payloads == BoundedSeq(Bytes, MaxLen) \cup {ExampleABC, ExampleMeow}
FileContents == BoundedSeq(FileBytes, MaxFileLen)

EmptyMetadata == [k \in {} |-> None]
FooBar == [foo |-> "bar"]

Min(S) == CHOOSE x \in S : \A y \in S : x <= y

----------------------------------------------------------------------------
(* UTF-8 decoding, as done by open(..., encoding="utf-8") and by the       *)
(* coercion of a bytes page_content to the text field of a Document.       *)
(* state is "ok", "truncated" (the bytes end inside a well-formed          *)
(* multi-byte sequence; text holds what precedes it) or "invalid".  A      *)
(* decoder that may get more bytes reports "invalid" as soon as a byte     *)
(* present is wrong, and keeps a truncated sequence pending; so it does    *)
(* the lead byte 0xED with one byte 0xA0..0xBF behind it (the beginning of *)
(* an encoded surrogate), which is wrong once a third byte is there.       *)

Utf8Need(b1) ==
    IF b1 < 128 THEN 0
    ELSE IF b1 \in 194..223 THEN 1
    ELSE IF b1 \in 224..239 THEN 2
    ELSE IF b1 \in 240..244 THEN 3
    ELSE -1

Utf8CodePoint(b, i, need) ==
    CASE need = 0 -> b[i]
      [] need = 1 -> (b[i] - 192) * 64 + (b[i+1] - 128)
      [] need = 2 -> (b[i] - 224) * 4096 + (b[i+1] - 128) * 64 + (b[i+2] - 128)
      [] need = 3 -> (b[i] - 240) * 262144 + (b[i+1] - 128) * 4096
                       + (b[i+2] - 128) * 64 + (b[i+3] - 128)

\* The bytes of b from i on are scanned, acc is the text decoded before
\* them.  Of a multi-byte sequence every byte that is there is checked:
\* the second against the range the lead byte allows (no overlong form,
\* no surrogate, nothing above U+10FFFF), the others as continuations.
Utf8Bad(b, i, b1, need, avail) ==
    \/ need = -1
    \/ /\ need >= 1 /\ avail >= 1
       /\ b[i+1] < (IF b1 = 224 THEN 160 ELSE IF b1 = 240 THEN 144 ELSE 128)
            \/ b[i+1] > (IF b1 = 237 THEN 159 ELSE IF b1 = 244 THEN 143 ELSE 191)
    \/ need >= 2 /\ avail >= 2 /\ b[i+2] \notin 128..191
    \/ need >= 3 /\ avail >= 3 /\ b[i+3] \notin 128..191

RECURSIVE Utf8Scan(_, _, _)

Utf8Sequence(b, i, acc, b1, need, avail) ==
    IF b1 = 237 /\ avail = 1 /\ b[i+1] \in 160..191
      THEN [state |-> "truncated", text |-> acc]
    ELSE IF Utf8Bad(b, i, b1, need, avail)
      THEN [state |-> "invalid", text |-> acc]
    ELSE IF avail < need
      THEN [state |-> "truncated", text |-> acc]
    ELSE Utf8Scan(b, i + need + 1, Append(acc, Utf8CodePoint(b, i, need)))

Utf8Scan(b, i, acc) ==
    IF i > Len(b) THEN [state |-> "ok", text |-> acc]
    ELSE IF b[i] < 128 THEN Utf8Scan(b, i + 1, Append(acc, b[i]))
    ELSE Utf8Sequence(b, i, acc, b[i], Utf8Need(b[i]), Len(b) - i)

utf8_decode(b) == Utf8Scan(b, 1, <<>>)

----------------------------------------------------------------------------
(* Blob and Document values. *)

\* Blob(data=...): an in-memory blob, without a path.
BlobOfData(data, encoding, metadata) ==
    [path |-> None, data |-> data, encoding |-> encoding,
     mimetype |-> None, metadata |-> metadata]

\* The blobs the notebook's cloud blob loader is shown to yield.
CloudPaths ==
    {"s3://bucket-01/Annual-Report-2016.pdf",
     "s3://bucket-01/ComingHomeToNature_ActivityBooklet.pdf",
     "s3://bucket-01/ComingHomeToNature_ActivityBookletFoyles.pdf",
     "s3://bucket-01/EVENTS E-POSTER_DAYS OF AWE.pdf",
     "s3://bucket-01/MH.pdf",
     "s3://bucket-01/SRT Annual Report 2018.pdf"}

\* The mimetype a blob made from a path gets, guessed from the extension
\* of the path: given here for the paths of the notebook (.txt, .pdf) and
\* of the model, which have no extension and so no mimetype.
guess_type(path) ==
    CASE path = "./meow.txt" -> "text/plain"
      [] path \in CloudPaths -> "application/pdf"
      [] path \in Paths -> None

\* Blob.from_path(path, metadata=...): the payload stays in the file.
BlobFromPath(path, encoding, metadata) ==
    [path |-> path, data |-> <<>>, encoding |-> encoding,
     mimetype |-> guess_type(path), metadata |-> metadata]

\* blob.source
BlobSource(b) == b.path

\* blob.as_bytes_io(): the byte stream of the payload, read from the file
\* system at this moment for a blob that has a path.
as_bytes_io(b) == IF b.path = None THEN b.data ELSE fs[b.path]

\* Document(page_content=..., metadata=...) given bytes: page_content is a
\* text field, so the bytes are decoded as UTF-8 whatever the blob's
\* encoding; bytes that are not UTF-8 are rejected.
DocumentOfDecoded(d, metadata) ==
    IF d.state = "ok"
      THEN [ok |-> TRUE,
            doc |-> [page_content |-> d.text, metadata |-> metadata]]
      ELSE [ok |-> FALSE, doc |-> NoItem]

DocumentOfBytes(page_content, metadata) ==
    DocumentOfDecoded(utf8_decode(page_content), metadata)

----------------------------------------------------------------------------
(* MyParser.lazy_parse *)

\* One iteration of "for line in f" over a binary stream at offset pos:
\* the bytes up to and including the next LF, or the rest of the stream.
LineEnd(data, nl) == IF nl = {} THEN Len(data) ELSE Min(nl)

ReadLine(data, pos) ==
    SubSeq(data, pos + 1,
           LineEnd(data, {k \in (pos + 1)..Len(data) : data[k] = LF}))

\* Variant: the source is left out of the metadata.
ParserMetadataNoSource(b, line_number) ==
    [line_number |-> line_number, source |-> None]

\* Variant: the blob's own metadata is merged into the Document's.
ParserMetadataMerged(b, line_number) ==
    [k \in {"line_number", "source"} \cup DOMAIN b.metadata |->
        IF k = "line_number" THEN line_number
        ELSE IF k = "source" THEN b.path
        ELSE b.metadata[k]]

\* metadata={"line_number": line_number, "source": blob.source}
ParserMetadata(b, line_number) ==
    [line_number |-> line_number, source |-> BlobSource(b)]

\* Variant: numbering that starts at 0, as CustomDocumentLoader's does.
ParserCreatedZeroBased == [pc |-> "created", pos |-> 0, line_number |-> -1]

\* line_number = 0, before the stream is opened
ParserCreated == [pc |-> "created", pos |-> 0, line_number |-> 0]

\* Variant: the counter is kept on the parser instance, shared by every
\* lazy_parse generator of that instance.
ParserLineNumberShared(line_number) ==
    IF loader = "MyParser"
      THEN Len(recv[1]) + Len(recv[2]) + 1
      ELSE line_number + 1

\* Variant: within a GenericLoader the counter runs on from blob to blob
\* instead of starting anew with each lazy_parse(blob).
ParserLineNumberAcrossBlobs(line_number) ==
    IF loader \in {"GenericLoader", "MyCustomLoader"}
      THEN Len(out) + 1
      ELSE line_number + 1

\* line_number += 1
ParserLineNumber(line_number) == line_number + 1

\* The body of the loop for one line read: the Document is yielded, or
\* its construction raises.
ParserYield(p, line, n, d, opened) ==
    IF d.ok
      THEN [gen |-> [pc |-> "suspended", pos |-> p.pos + Len(line),
                     line_number |-> n],
            ev |-> "yield", item |-> d.doc, opened |-> opened]
      ELSE [gen |-> [pc |-> "raised", pos |-> p.pos, line_number |-> n],
            ev |-> "raise", item |-> "ValidationError", opened |-> opened]

\* "for line in f": the loop ends at the end of the stream.
ParserLoop(b, p, line, n, opened) ==
    IF line = <<>>
      THEN [gen |-> [p EXCEPT !.pc = "done"], ev |-> "stop",
            item |-> NoItem, opened |-> opened]
      ELSE ParserYield(p, line, n,
                       DocumentOfBytes(line, ParserMetadata(b, n)), opened)

\* Variant: a generator that has raised goes on behind the offending line
\* when it is asked again (skip and continue).
lazy_parse_resuming(b, p) ==
    IF p.pc = "done"
      THEN [gen |-> p, ev |-> "stop", item |-> NoItem, opened |-> FALSE]
      ELSE LET q == IF p.pc = "raised"
                      THEN [p EXCEPT !.pos = @ + Len(ReadLine(as_bytes_io(b), @))]
                      ELSE p
           IN ParserLoop(b, q, ReadLine(as_bytes_io(b), q.pos),
                         ParserLineNumber(q.line_number), q.pc = "created")

\* Resume of a lazy_parse(blob) generator in state p: runs to the next
\* yield, to the end of the stream, or to the exception.  opened tells
\* that this resume opened the stream (blob.as_bytes_io()).
lazy_parse(b, p) ==
    IF p.pc \in {"done", "raised"}
      THEN [gen |-> p, ev |-> "stop", item |-> NoItem, opened |-> FALSE]
      ELSE ParserLoop(b, p, ReadLine(as_bytes_io(b), p.pos),
                      ParserLineNumber(p.line_number), p.pc = "created")

\* Variant: the lines read are taken off the blob's payload, as when the
\* parser read from a stream that the blob itself holds.
BlobAfterConsumed(b, r) ==
    IF r.ev = "yield" /\ b.path = None
      THEN [b EXCEPT !.data = SubSeq(@, r.gen.pos + 1, Len(@))]
      ELSE b

\* The blob after the resume r of a lazy_parse(b) generator: the parser
\* reads from a stream of its own (blob.as_bytes_io()) and blob.source,
\* and assigns to nothing of the blob.
BlobAfter(b, r) == b

----------------------------------------------------------------------------
(* CustomDocumentLoader.lazy_load *)

\* Universal newlines of a text stream opened with newline=None: CR LF and
\* a lone CR are both read as LF.
RECURSIVE Translate(_, _, _)
Translate(t, i, acc) ==
    IF i > Len(t) THEN acc
    ELSE IF t[i] = CR
      THEN Translate(t, IF i < Len(t) /\ t[i+1] = LF THEN i + 2 ELSE i + 1,
                     Append(acc, LF))
    ELSE Translate(t, i + 1, Append(acc, t[i]))

\* The text stream of open(file_path, encoding="utf-8") reads the file
\* in chunks of ChunkSize bytes, when the text read so far holds no line
\* for the reader; the read that finds no byte left is the last one.
ChunkSize == 8192

ChunksRead(bytes, n) ==
    IF n * ChunkSize >= Len(bytes) THEN bytes
    ELSE SubSeq(bytes, 1, n * ChunkSize)

ChunkFinal(bytes, n) == n >= 1 /\ (n - 1) * ChunkSize >= Len(bytes)

\* Before the last read a CR at the end of the text decoded so far is
\* held back: an LF may follow it.  (Bytes that end inside a multi-byte
\* sequence are held back by the decoder.)
HeldBack(s, final) ==
    ~final /\ s.text # <<>> /\ s.text[Len(s.text)] = CR

Readable(s, final) ==
    [state |-> s.state,
     text |-> IF \A k \in 1..Len(s.text) : s.text[k] # CR
                THEN s.text
                ELSE Translate(IF HeldBack(s, final)
                                 THEN SubSeq(s.text, 1, Len(s.text) - 1)
                                 ELSE s.text, 1, <<>>)]

\* The stream after n reads: what is decoded of the chunks read, or the
\* failure of the decoder on them.
TextStream(bytes, n) ==
    Readable(utf8_decode(ChunksRead(bytes, n)), ChunkFinal(bytes, n))

\* The bytes up to and including the next LF of the text at offset pos,
\* or the rest of the text.
ReadTextLine(text, pos) ==
    SubSeq(text, pos + 1,
           LineEnd(text, {k \in (pos + 1)..Len(text) : text[k] = LF}))

\* One iteration of "for line in f" at offset pos of the text, n reads
\* done: the line, if the text read holds a whole one or the file is at
\* its end; else one more chunk is read.  A read fails on bytes that are
\* not UTF-8, the last read on bytes held back by the decoder.  (The
\* stream has read one chunk when the first line is there; the reads a
\* later line takes are counted again from that one: no read is undone
\* by a line given out.)
RECURSIVE StreamReadLine(_, _, _)

StreamLineAt(bytes, pos, n, s, final) ==
    IF s.state = "invalid" \/ (final /\ s.state = "truncated")
      THEN [ok |-> FALSE, line |-> <<>>]
    ELSE IF final \/ \E k \in (pos + 1)..Len(s.text) : s.text[k] = LF
      THEN [ok |-> TRUE, line |-> ReadTextLine(s.text, pos)]
    ELSE StreamReadLine(bytes, pos, n + 1)

StreamReadLine(bytes, pos, n) ==
    StreamLineAt(bytes, pos, n, TextStream(bytes, n), ChunkFinal(bytes, n))

\* Variant: the loader numbers its lines as the parser does, from 1.
LoaderMetadataOneBased(line_number) ==
    [line_number |-> line_number + 1, source |-> file_path]

\* metadata={"line_number": line_number, "source": self.file_path}
LoaderMetadata(line_number) ==
    [line_number |-> line_number, source |-> file_path]

\* The generator before its first resume; line_number, here 0, is
\* assigned when the file has been opened.
CustomCreated == [pc |-> "created", pos |-> 0, line_number |-> 0]

\* No iteration has been given up.
NoneAbandoned == [count |-> 0, its |-> {}, n |-> 0]

\* Variant: the counter is kept on the loader, so that a new call goes on
\* from where the iteration given up before it had come.
LoaderLineNumberKept(g) ==
    IF g.pc = "created"
      THEN abandoned.n
      ELSE g.line_number + 1

\* Variant: the counter is an attribute of the loader, counted up by
\* every generator of that loader.
LoaderLineNumberShared(g) == Len(out) + Len(recv[1])

\* The line number of the next Document: 0 at the first resume, and
\* line_number += 1 when resumed after a yield.
LoaderLineNumber(g) == IF g.pc = "created" THEN 0 ELSE g.line_number + 1

\* The body of the loop for the line read at g.pos: the empty line is
\* the end of the file.
LoaderLoop(g, n, line) ==
    IF line = <<>>
      THEN [gen |-> [pc |-> "done", pos |-> g.pos, line_number |-> n],
            ev |-> "stop", item |-> NoItem]
    ELSE [gen |-> [pc |-> "suspended", pos |-> g.pos + Len(line),
                   line_number |-> n],
          ev |-> "yield",
          item |-> [page_content |-> line, metadata |-> LoaderMetadata(n)]]

\* "for line in f": the read r of the next line fails, or gives the line
\* to the body of the loop.
LoaderRead(g, n, r) ==
    IF ~r.ok
      THEN [gen |-> [pc |-> "raised", pos |-> g.pos, line_number |-> n],
            ev |-> "raise", item |-> "UnicodeDecodeError"]
      ELSE LoaderLoop(g, n, r.line)

\* Resume of a CustomDocumentLoader.lazy_load() generator in state g.
CustomDocumentLoader_lazy_load(g) ==
    IF g.pc \in {"done", "raised"}
      THEN [gen |-> g, ev |-> "stop", item |-> NoItem]
      ELSE LoaderRead(g, LoaderLineNumber(g),
                      StreamReadLine(fs[file_path], g.pos, 1))

----------------------------------------------------------------------------
(* CustomDocumentLoader.alazy_load *)

\* The coroutine behind __anext__() returns to the event loop at each
\* await: of aiofiles.open(...) on entering "async with" ("opening"), of
\* the readline() of each step of "async for line in f" ("reading"), and
\* of the close of the file on leaving "async with", after the end of the
\* file ("closing") or with the exception of the read ("failing").
Awaiting == {"opening", "reading", "closing", "failing"}

\* await f.readline() of aiofiles: the readline() of the same kind of text
\* stream, run in a worker thread; the empty text ends the loop.
AsyncReadLine(bytes, pos) == StreamReadLine(bytes, pos, 1)

\* The generator before its first resume; line_number, here 0, is
\* assigned when the file has been opened.
ACustomCreated == [pc |-> "created", pos |-> 0, line_number |-> 0]

\* Variant: the async generator counts the lines from 1.
ALoaderLineNumberFromOne(g) ==
    IF g.pc = "opening" THEN 1 ELSE g.line_number + 1

\* The line number of the next Document of the async generator:
\* line_number = 0 once the file is open, line_number += 1 when resumed
\* after a yield.
ALoaderLineNumber(g) == IF g.pc = "opening" THEN 0 ELSE g.line_number + 1

\* The body of the async loop for the line awaited at g.pos; at the end of
\* the file the close is awaited.
ALoaderLoop(g, line) ==
    IF line = <<>>
      THEN [gen |-> [g EXCEPT !.pc = "closing"], ev |-> "await",
            item |-> NoItem]
    ELSE [gen |-> [g EXCEPT !.pc = "suspended", !.pos = @ + Len(line)],
          ev |-> "yield",
          item |-> [page_content |-> line,
                    metadata |-> [line_number |-> g.line_number,
                                  source |-> file_path]]]

\* The awaited read r is done: its failure leaves "async with", which
\* awaits the close before the exception goes on.
ALoaderRead(g, r) ==
    IF ~r.ok
      THEN [gen |-> [g EXCEPT !.pc = "failing"], ev |-> "await",
            item |-> NoItem]
      ELSE ALoaderLoop(g, r.line)

\* The coroutine runs on to the await of the next read: with the file
\* just opened, or resumed after a yield.
ALoaderAwait(g) ==
    [gen |-> [g EXCEPT !.pc = "reading",
                       !.line_number = ALoaderLineNumber(g)],
     ev |-> "await", item |-> NoItem]

\* One run of the coroutine of a CustomDocumentLoader.alazy_load()
\* generator in state g, from the call of __anext__() or from the end of
\* the operation it awaits to the next await (ev = "await": nothing goes
\* to the consumer yet), to the yield, or to the end of the generator.
CustomDocumentLoader_alazy_load(g) ==
    CASE g.pc \in {"done", "raised"} ->
           [gen |-> g, ev |-> "stop", item |-> NoItem]
      [] g.pc = "created" ->
           [gen |-> [g EXCEPT !.pc = "opening"], ev |-> "await",
            item |-> NoItem]
      [] g.pc \in {"opening", "suspended"} -> ALoaderAwait(g)
      [] g.pc = "reading" ->
           ALoaderRead(g, AsyncReadLine(fs[file_path], g.pos))
      [] g.pc = "closing" ->
           [gen |-> [g EXCEPT !.pc = "done"], ev |-> "stop", item |-> NoItem]
      [] g.pc = "failing" ->
           [gen |-> [g EXCEPT !.pc = "raised"], ev |-> "raise",
            item |-> "UnicodeDecodeError"]

----------------------------------------------------------------------------
(* FileSystemBlobLoader.yield_blobs and GenericLoader.lazy_load *)

\* Resume of a yield_blobs() generator that has yielded i blobs: the next
\* listed path as a Blob whose payload is not read, the end of the listing,
\* or the failure of the storage.
\* Variant: the listing is walked from its end.
NextPathReversed(i) == listing[Len(listing) - i]

\* The path listed after i others: the storage's listing order.
NextPath(i) == listing[i + 1]

\* Variant: the whole listing is fetched before the first blob is
\* yielded, so a failure of the storage surfaces at the first request.
yield_blobs_eager(g) ==
    IF g.pc \in {"done", "raised"}
      THEN [gen |-> g, ev |-> "stop", item |-> NoItem]
    ELSE IF failAt > 0
      THEN [gen |-> [g EXCEPT !.pc = "raised"], ev |-> "raise",
            item |-> "SourceEnumerationError"]
    ELSE IF g.i + 1 > Len(listing)
      THEN [gen |-> [g EXCEPT !.pc = "done"], ev |-> "stop", item |-> NoItem]
    ELSE [gen |-> [pc |-> "suspended", i |-> g.i + 1], ev |-> "yield",
          item |-> BlobFromPath(NextPath(g.i), "utf-8", EmptyMetadata)]

yield_blobs(g) ==
    IF g.pc \in {"done", "raised"}
      THEN [gen |-> g, ev |-> "stop", item |-> NoItem]
    ELSE IF failAt = g.i + 1
      THEN [gen |-> [g EXCEPT !.pc = "raised"], ev |-> "raise",
            item |-> "SourceEnumerationError"]
    ELSE IF g.i + 1 > Len(listing)
      THEN [gen |-> [g EXCEPT !.pc = "done"], ev |-> "stop", item |-> NoItem]
    ELSE [gen |-> [pc |-> "suspended", i |-> g.i + 1], ev |-> "yield",
          item |-> BlobFromPath(NextPath(g.i), "utf-8", EmptyMetadata)]

BlobsCreated == [pc |-> "created", i |-> 0]

\* The arguments the notebook builds its filesystem blob loaders from.
FilesystemArgs == [path |-> ".", glob |-> "*.mdx", show_progress |-> TRUE]

\* FileSystemBlobLoader(path=..., glob=..., show_progress=...): the blob
\* loader object; what its glob matches in the storage is listing.
FileSystemBlobLoader(args) ==
    [path |-> args.path, glob |-> args.glob,
     show_progress |-> args.show_progress]

\* GenericLoader(blob_loader=..., blob_parser=...): the loader object.
GenericLoader(blob_loader, blob_parser) ==
    [blob_loader |-> blob_loader, blob_parser |-> blob_parser]

\* Variant: the subclass does not override get_parser, and the default
\* parser of the library is taken.
get_parser_default(cls) == "TextParser"

\* MyCustomLoader.get_parser(): return MyParser()
get_parser(cls) == "MyParser"

\* cls.from_filesystem(path, glob=..., show_progress=...): a filesystem
\* blob loader of these arguments with the parser of cls.get_parser().
from_filesystem(cls, args) ==
    GenericLoader(FileSystemBlobLoader(args), get_parser(cls))

\* A lazy_load() generator of the loader object self before its first
\* resume: blobs is the yield_blobs() generator of self.blob_loader, parse
\* the lazy_parse() generator of the current blob.
GenericCreatedOf(self) ==
    [pc |-> "created", blobs |-> BlobsCreated, cur |-> NoItem,
     parse |-> ParserCreated, self |-> self]

\* generic_loader_filesystem = GenericLoader(
\*     blob_loader=filesystem_blob_loader, blob_parser=parser)
GenericCreated ==
    GenericCreatedOf(GenericLoader(FileSystemBlobLoader(FilesystemArgs),
                                   "MyParser"))

\* loader = MyCustomLoader.from_filesystem(path=".", glob="*.mdx", ...)
MyCustomCreated ==
    GenericCreatedOf(from_filesystem("MyCustomLoader", FilesystemArgs))

\* A parser that makes one Document of the whole payload, decoded in the
\* blob's encoding: what a loader without a parser of its own falls to.
TextParser_lazy_parse(b, p) ==
    IF p.pc \in {"done", "raised"}
      THEN [gen |-> p, ev |-> "stop", item |-> NoItem, opened |-> FALSE]
    ELSE IF p.pc = "suspended"
      THEN [gen |-> [p EXCEPT !.pc = "done"], ev |-> "stop",
            item |-> NoItem, opened |-> FALSE]
    ELSE IF utf8_decode(as_bytes_io(b)).state # "ok"
      THEN [gen |-> [p EXCEPT !.pc = "raised"], ev |-> "raise",
            item |-> "UnicodeDecodeError", opened |-> TRUE]
    ELSE [gen |-> [p EXCEPT !.pc = "suspended"], ev |-> "yield",
          item |-> [page_content |-> utf8_decode(as_bytes_io(b)).text,
                    metadata |-> [source |-> BlobSource(b)]],
          opened |-> TRUE]

\* self.blob_parser.lazy_parse(blob)
blob_parser_lazy_parse(self, b, p) ==
    IF self.blob_parser = "MyParser"
      THEN lazy_parse(b, p)
      ELSE TextParser_lazy_parse(b, p)

\* Variant: opening one payload also fetches the payload of the item
\* listed next (read-ahead by one blob).
ResolveNext(res, i, opened) ==
    IF opened
      THEN [j \in DOMAIN res |-> IF j \in {i, i + 1} THEN res[j] + 1 ELSE res[j]]
      ELSE res

\* Variant: opening one payload reads the payload of every listed item.
ResolveAll(res, i, opened) ==
    IF opened THEN [j \in DOMAIN res |-> res[j] + 1] ELSE res

\* The resolution counters after the parser's resume: the payload of
\* listed item i is resolved once more if the resume opened its stream.
Resolve(res, i, opened) == IF opened THEN [res EXCEPT ![i] = @ + 1] ELSE res

\* Resume of a GenericLoader.lazy_load() generator; m holds the generator
\* state and the resolution counters of the listed items.
\*     for blob in self.blob_loader.yield_blobs():
\*         yield from self.blob_parser.lazy_parse(blob)
RECURSIVE GenericLoader_lazy_load(_)

\* Variant: the exception is reported, but the loop over the blobs goes on
\* with the next blob at the next request.
ParserRaisedSkips(g, r, res) ==
    [gen |-> [g EXCEPT !.pc = "next", !.parse = r.gen], res |-> res,
     ev |-> "raise", item |-> r.item]

\* An exception of the parser leaves the "yield from" and the loop: the
\* generator ends with it.
ParserRaised(g, r, res) ==
    [gen |-> [g EXCEPT !.pc = "raised", !.parse = r.gen], res |-> res,
     ev |-> "raise", item |-> r.item]

\* "yield from self.blob_parser.lazy_parse(blob)": what the parser's
\* generator yields or raises goes to the consumer; when it ends, the loop
\* asks for the next blob.
YieldFrom(g, r, res) ==
    CASE r.ev = "yield" ->
           [gen |-> [g EXCEPT !.parse = r.gen], res |-> res,
            ev |-> "yield", item |-> r.item]
      [] r.ev = "raise" -> ParserRaised(g, r, res)
      [] r.ev = "stop" ->
           GenericLoader_lazy_load(
               [gen |-> [g EXCEPT !.pc = "next", !.parse = r.gen],
                res |-> res])

\* "for blob in self.blob_loader.yield_blobs()": the next blob is handed
\* to the parser; the end or the failure of the listing ends the generator.
ForBlob(g, b, res) ==
    CASE b.ev = "yield" ->
           GenericLoader_lazy_load(
               [gen |-> [pc |-> "parsing", blobs |-> b.gen,
                         cur |-> b.item, parse |-> ParserCreated,
                         self |-> g.self],
                res |-> res])
      [] b.ev = "raise" ->
           [gen |-> [g EXCEPT !.pc = "raised", !.blobs = b.gen],
            res |-> res, ev |-> "raise", item |-> b.item]
      [] b.ev = "stop" ->
           [gen |-> [g EXCEPT !.pc = "done", !.blobs = b.gen],
            res |-> res, ev |-> "stop", item |-> NoItem]

\* The parser's resume together with the count of the payload it opened.
Resolving(g, r, res) == YieldFrom(g, r, Resolve(res, g.blobs.i, r.opened))

GenericLoader_lazy_load(m) ==
    IF m.gen.pc \in {"done", "raised"}
      THEN [gen |-> m.gen, res |-> m.res, ev |-> "stop", item |-> NoItem]
    ELSE IF m.gen.pc = "parsing"
      THEN Resolving(m.gen,
                     blob_parser_lazy_parse(m.gen.self, m.gen.cur, m.gen.parse),
                     m.res)
    ELSE ForBlob(m.gen, yield_blobs(m.gen.blobs), m.res)

----------------------------------------------------------------------------
(* BaseLoader: lazy_load of the loader at hand, and load. *)

Loaders ==
    {"GenericLoader", "MyCustomLoader", "CustomDocumentLoader",
     "FileSystemBlobLoader"}

Generic == {"GenericLoader", "MyCustomLoader"}

\* The listed item a generator state is at (0 outside GenericLoader).
ItemIndex(g) == IF loader \in Generic THEN g.blobs.i ELSE 0

\* The generator a consumer gets from the object it drives.
Created ==
    CASE loader = "GenericLoader" -> GenericCreated
      [] loader = "MyCustomLoader" -> MyCustomCreated
      [] loader = "CustomDocumentLoader" -> CustomCreated
      [] OTHER -> BlobsCreated

\* A resume that touches no payload counter.
WithCounters(r, res) ==
    [gen |-> r.gen, res |-> res, ev |-> r.ev, item |-> r.item]

\* next() on that generator.
lazy_load(m) ==
    CASE loader \in Generic -> GenericLoader_lazy_load(m)
      [] loader = "CustomDocumentLoader" ->
           WithCounters(CustomDocumentLoader_lazy_load(m.gen), m.res)
      [] OTHER -> WithCounters(yield_blobs(m.gen), m.res)

\* list(generator): every item up to exhaustion; an exception of the
\* generator leaves no list.
RECURSIVE list(_, _)

\* Variant: the exception is caught, and the items collected before it
\* are returned as the list.
CollectedPartial(r, acc) ==
    CASE r.ev = "yield" ->
           list([gen |-> r.gen, res |-> r.res], Append(acc, r.item))
      [] r.ev = "stop" ->
           [status |-> "returned", docs |-> acc, error |-> NoItem,
            res |-> r.res]
      [] r.ev = "raise" ->
           [status |-> "returned", docs |-> acc, error |-> NoItem,
            res |-> r.res]

Collected(r, acc) ==
    CASE r.ev = "yield" ->
           list([gen |-> r.gen, res |-> r.res], Append(acc, r.item))
      [] r.ev = "stop" ->
           [status |-> "returned", docs |-> acc, error |-> NoItem,
            res |-> r.res]
      [] r.ev = "raise" ->
           [status |-> "raised", docs |-> NoItem, error |-> r.item,
            res |-> r.res]

list(m, acc) == Collected(lazy_load(m), acc)

\* Variant: load() stops after the first item.
FirstOnly(r) ==
    CASE r.ev = "yield" ->
           [status |-> "returned", docs |-> <<r.item>>, error |-> NoItem,
            res |-> r.res]
      [] r.ev = "stop" ->
           [status |-> "returned", docs |-> <<>>, error |-> NoItem,
            res |-> r.res]
      [] r.ev = "raise" ->
           [status |-> "raised", docs |-> NoItem, error |-> r.item,
            res |-> r.res]

load_first(res) == FirstOnly(lazy_load([gen |-> Created, res |-> res]))

\* load(): list(self.lazy_load())
load(res) == list([gen |-> Created, res |-> res], <<>>)

----------------------------------------------------------------------------------------------------------------------------------------------
(* The state machine: a consumer drives one loader over a file system, or  *)
(* iterates MyParser.lazy_parse(blob) directly, twice over the same blob.  *)
(* Of a CustomDocumentLoader the consumer holds, besides the generator     *)
(* gen, a second lazy_load() generator (iters[1]) and an alazy_load()      *)
(* generator (iters[2]).                                                   *)

Iterators == {1, 2}
Encodings == {"utf-8", "latin-1"}

\* A blob loader over files of the pipeline's file system, alone or
\* within a GenericLoader; the files it does not list are left empty.
InitBlobs ==
    /\ loader \in Loaders \ {"CustomDocumentLoader"}
    /\ listing \in BoundedSeq(Paths, MaxBlobs)
    /\ failAt \in 0..Len(listing)
    /\ fs \in [Paths -> FileContents]
    /\ \A p \in Paths :
         (\E i \in 1..Len(listing) : listing[i] = p) \/ fs[p] = <<>>
    /\ file_path = None
    /\ iters = <<>>
    /\ recv = <<>>
    /\ errs = <<>>

\* loader = CustomDocumentLoader(file_path) over a file of any bytes.
InitCustom ==
    /\ loader = "CustomDocumentLoader"
    /\ file_path = "f1"
    /\ \E data \in BoundedSeq(Bytes, MaxFileLen) :
         fs = [p \in Paths |-> IF p = file_path THEN data ELSE <<>>]
    /\ listing = <<>>
    /\ failAt = 0
    /\ iters = [k \in Iterators |->
                  IF k = 1 THEN CustomCreated ELSE ACustomCreated]
    /\ recv = [k \in Iterators |-> <<>>]
    /\ errs = [k \in Iterators |-> NoItem]

InitLoader ==
    /\ InitBlobs \/ InitCustom
    /\ gen = Created
    /\ blob = NoItem

\* blob = Blob(data=...) or blob = Blob.from_path("f1", metadata=...);
\* parser = MyParser()
InitParser ==
    /\ loader = "MyParser"
    /\ \E data \in Payloads, enc \in Encodings, md \in {EmptyMetadata, FooBar} :
         \/ /\ blob = BlobOfData(data, enc, md)
            /\ fs = [p \in Paths |-> <<>>]
         \/ /\ enc = "utf-8"
            /\ blob = BlobFromPath("f1", enc, md)
            /\ fs = [p \in Paths |-> IF p = "f1" THEN data ELSE <<>>]
    /\ iters = [k \in Iterators |-> ParserCreated]
    /\ recv = [k \in Iterators |-> <<>>]
    /\ errs = [k \in Iterators |-> NoItem]
    /\ file_path = None
    /\ listing = <<>>
    /\ failAt = 0
    /\ gen = NoItem

Init ==
    /\ InitLoader \/ InitParser
    /\ out = <<>>
    /\ outIdx = <<>>
    /\ requests = 0
    /\ resolved = [i \in 1..Len(listing) |-> 0]
    /\ err = NoItem
    /\ loaded = NotCalled
    /\ abandoned = NoneAbandoned

ended == gen.pc \in {"done", "raised"}

\* The consumer gets r from next(): an item, StopIteration or an exception.
Receive(r) ==
    /\ gen' = r.gen
    /\ resolved' = r.res
    /\ out' = IF r.ev = "yield" THEN Append(out, r.item) ELSE out
    /\ outIdx' = IF r.ev = "yield"
                   THEN Append(outIdx, ItemIndex(r.gen)) ELSE outIdx
    /\ err' = IF r.ev = "raise" THEN r.item ELSE err

\* The consumer asks the generator for its next item.
Request ==
    /\ loader \in Loaders
    /\ ~ended \/ requests < Len(out) + 1 + MaxExtraRequests
    /\ Receive(lazy_load([gen |-> gen, res |-> resolved]))
    /\ requests' = requests + 1
    /\ UNCHANGED <<fs, loader, listing, failAt, loaded, file_path,
                   blob, iters, recv, errs, abandoned>>

Returned(r) ==
    /\ loaded' = [status |-> r.status, docs |-> r.docs, error |-> r.error]
    /\ resolved' = r.res

\* The caller calls loader.load(): at any time, and any number of times,
\* on a CustomDocumentLoader; once on a GenericLoader, where each call
\* opens every payload once more.
Load ==
    /\ loader \in Generic \cup {"CustomDocumentLoader"}
    /\ loader \in Generic => loaded.status = "not called"
    /\ Returned(load(resolved))
    /\ UNCHANGED <<fs, loader, listing, failAt, gen, out, outIdx, requests,
                   err, file_path, blob, iters, recv, errs, abandoned>>

ReceiveParsed(k, r) ==
    /\ iters' = [iters EXCEPT ![k] = r.gen]
    /\ recv' = IF r.ev = "yield"
                 THEN [recv EXCEPT ![k] = Append(@, r.item)] ELSE recv
    /\ errs' = IF r.ev = "raise" THEN [errs EXCEPT ![k] = r.item] ELSE errs

\* The consumer asks the k-th lazy_parse(blob) generator for its next
\* item, also when the generator has ended.
ParseNext(k) ==
    /\ loader = "MyParser"
    /\ ReceiveParsed(k, lazy_parse(blob, iters[k]))
    /\ blob' = BlobAfter(blob, lazy_parse(blob, iters[k]))
    /\ UNCHANGED <<fs, loader, listing, failAt, gen, out, outIdx, requests,
                   resolved, err, loaded, file_path, abandoned>>

\* The consumer asks its second lazy_load() generator for the next item.
LazyLoadNext ==
    /\ loader = "CustomDocumentLoader"
    /\ ReceiveParsed(1, CustomDocumentLoader_lazy_load(iters[1]))
    /\ UNCHANGED <<fs, loader, listing, failAt, gen, out, outIdx, requests,
                   resolved, err, loaded, file_path, blob, abandoned>>

\* One step of "async for doc in loader.alazy_load()": the consumer calls
\* __anext__() and awaits it; on a generator that has not ended, the
\* coroutine runs to its first await.
ALazyLoadNext ==
    /\ loader = "CustomDocumentLoader"
    /\ iters[2].pc \notin Awaiting
    /\ ReceiveParsed(2, CustomDocumentLoader_alazy_load(iters[2]))
    /\ UNCHANGED <<fs, loader, listing, failAt, gen, out, outIdx, requests,
                   resolved, err, loaded, file_path, blob, abandoned>>

\* The operation the pending __anext__() awaits is done, and the event
\* loop runs the coroutine on: to its next await, or to the record, the
\* end or the exception that the consumer gets.
ALazyLoadResume ==
    /\ loader = "CustomDocumentLoader"
    /\ iters[2].pc \in Awaiting
    /\ ReceiveParsed(2, CustomDocumentLoader_alazy_load(iters[2]))
    /\ UNCHANGED <<fs, loader, listing, failAt, gen, out, outIdx, requests,
                   resolved, err, loaded, file_path, blob, abandoned>>

\* The generator a new call of the k-th operation returns.
Fresh(k) ==
    IF loader = "MyParser" THEN ParserCreated
    ELSE IF k = 1 THEN CustomCreated ELSE ACustomCreated

\* The consumer gives up the k-th generator before its end, after some
\* records ("break") or before the first one, and calls the same
\* operation again on the same object.
Break(k) ==
    /\ loader \in {"MyParser", "CustomDocumentLoader"}
    /\ abandoned.count < MaxAbandoned
    /\ iters[k].pc \in {"created", "suspended"}
    /\ abandoned' = [count |-> abandoned.count + 1,
                     its |-> abandoned.its \cup {k},
                     n |-> Len(recv[k])]
    /\ iters' = [iters EXCEPT ![k] = Fresh(k)]
    /\ recv' = [recv EXCEPT ![k] = <<>>]
    /\ UNCHANGED <<fs, loader, listing, failAt, gen, out, outIdx, requests,
                   resolved, err, loaded, file_path, blob, errs>>

Next ==
    \/ Request
    \/ Load
    \/ \E k \in Iterators : ParseNext(k)
    \/ LazyLoadNext
    \/ ALazyLoadNext
    \/ ALazyLoadResume
    \/ \E k \in Iterators : Break(k)

Spec == Init /\ [][Next]_vars

----------------------------------------------------------------------------
(* Vocabulary of the properties. *)

\* list(parser.lazy_parse(b)): the Documents the parser yields from b up to
\* the end of the stream ("returned") or up to its exception ("raised").
RECURSIVE ParseFrom(_, _, _)
ParseFrom(b, p, acc) ==
    LET r == lazy_parse(b, p)
    IN CASE r.ev = "yield" -> ParseFrom(b, r.gen, Append(acc, r.item))
         [] r.ev = "stop" -> [status |-> "returned", docs |-> acc]
         [] r.ev = "raise" -> [status |-> "raised", docs |-> acc]

parse(b) == ParseFrom(b, ParserCreated, <<>>)

\* The blob the blob loader makes of listed item i.
BlobOf(i) == BlobFromPath(listing[i], "utf-8", EmptyMetadata)

\* P(B1) ++ ... ++ P(Bn)
RECURSIVE ConcatParsed(_)
ConcatParsed(n) ==
    IF n = 0 THEN <<>> ELSE ConcatParsed(n - 1) \o parse(BlobOf(n)).docs

IsPrefix(a, b) == Len(a) <= Len(b) /\ a = SubSeq(b, 1, Len(a))

\* Lines of a payload: one per LF, and one more for a last line without LF.
NumLines(data) ==
    Cardinality({k \in 1..Len(data) : data[k] = LF})
      + (IF data # <<>> /\ data[Len(data)] # LF THEN 1 ELSE 0)

RECURSIVE Contents(_)
Contents(docs) ==
    IF docs = <<>> THEN <<>>
    ELSE docs[1].page_content \o Contents(Tail(docs))

Doc(content, n, source) ==
    [page_content |-> content,
     metadata |-> [line_number |-> n, source |-> source]]

Faulty == {i \in 1..Len(listing) : parse(BlobOf(i)).status = "raised"}

IterEnded(k) == iters[k].pc \in {"done", "raised"}

\* The Documents a lazy_load() generator of the CustomDocumentLoader in
\* state g yields when run alone to its end or to its exception.
RECURSIVE Drain(_, _)
Drain(g, acc) ==
    LET r == CustomDocumentLoader_lazy_load(g)
    IN CASE r.ev = "yield" -> Drain(r.gen, Append(acc, r.item))
         [] r.ev = "stop" ->
              [status |-> "returned", docs |-> acc, error |-> NoItem]
         [] r.ev = "raise" ->
              [status |-> "raised", docs |-> acc, error |-> r.item]

\* The Documents a GenericLoader.lazy_load() generator yields from m on
\* when run alone to its end or to its exception.
RECURSIVE DrainGeneric(_, _)
DrainGeneric(m, acc) ==
    LET r == GenericLoader_lazy_load(m)
    IN CASE r.ev = "yield" ->
              DrainGeneric([gen |-> r.gen, res |-> r.res], Append(acc, r.item))
         [] r.ev = "stop" ->
              [status |-> "returned", docs |-> acc, error |-> NoItem]
         [] r.ev = "raise" ->
              [status |-> "raised", docs |-> acc, error |-> r.item]

\* GenericLoader(blob_loader=FileSystemBlobLoader(path, glob=...,
\* show_progress=...), blob_parser=MyParser()) drained over the storage.
ExplicitGenericLoader ==
    DrainGeneric([gen |-> GenericCreated,
                  res |-> [i \in 1..Len(listing) |-> 0]], <<>>)

\* What a consumer of the loader's lazy_load() gets when it iterates alone
\* to the end or to the exception.
LazilyLoaded ==
    IF loader = "CustomDocumentLoader"
      THEN Drain(CustomCreated, <<>>)
      ELSE ExplicitGenericLoader

\* The whole sequence of the operation behind the k-th generator.
Full(k) ==
    IF loader = "MyParser" THEN parse(blob) ELSE Drain(CustomCreated, <<>>)

\* list(MyParser().lazy_parse(Blob(data=...))) of the bytes of the
\* CustomDocumentLoader's file.
ParsedFile == parse(BlobOfData(fs[file_path], "utf-8", EmptyMetadata))

\* The file is UTF-8 text whose lines end in LF: it has no CR.
PlainText(data) ==
    /\ utf8_decode(data).state = "ok"
    /\ \A i \in 1..Len(data) : data[i] # CR

\* The whole text of the input of the operation behind
\* the further generators, taken from the input itself: the payload
\* decoded for the parser, the file decoded and its line ends translated
\* for the loader.
InputText ==
    IF loader = "MyParser"
      THEN utf8_decode(as_bytes_io(blob)).text
      ELSE Translate(utf8_decode(fs[file_path]).text, 1, <<>>)

\* The position index of the first record.
Base == IF loader = "MyParser" THEN 1 ELSE 0

----------------------------------------------------------------------------
(* Properties. *)

\* C1: order preservation.  What a consumer of GenericLoader.lazy_load()
\* has received is at every moment a prefix of P(B1) ++ ... ++ P(Bn), the
\* parser's records of the listed blobs in listing order, and it is the
\* whole of it when the generator is exhausted.
C1_OrderPreservation ==
    loader = "GenericLoader" =>
        LET all == ConcatParsed(Len(listing))
        IN /\ IsPrefix(out, all)
           /\ gen.pc = "done" => out = all

\* Two blobs, two records from the first and one from the second, drained.
C1_Witness ==
    /\ loader = "GenericLoader"
    /\ gen.pc = "done"
    /\ Len(listing) = 2
    /\ outIdx = <<1, 1, 2>>

\* C2 (as claimed): for any in-memory blob the parser runs to the end of
\* the payload and yields one record per line, each line with its
\* terminator, the last line without one when the payload does not end
\* in LF, numbered upwards from 1, the contents adding up to the payload.
C2_OneRecordPerLine ==
    (loader = "MyParser" /\ blob.path = None /\ IterEnded(1)) =>
        LET docs == recv[1]
            n == Len(docs)
        IN /\ iters[1].pc = "done"
           /\ n = NumLines(blob.data)
           /\ \A j \in 1..n :
                LET c == docs[j].page_content
                IN /\ c # <<>>
                   /\ \A i \in 1..(Len(c) - 1) : c[i] # LF
                   /\ j < n => c[Len(c)] = LF
                   /\ docs[j].metadata.line_number = j
           /\ utf8_decode(blob.data).state = "ok"
           /\ Contents(docs) = utf8_decode(blob.data).text

\* The part of C2 that holds: the same, for payloads that are UTF-8.
LinesOfUtf8Payload ==
    (/\ loader = "MyParser"
     /\ blob.path = None
     /\ utf8_decode(blob.data).state = "ok") => C2_OneRecordPerLine

\* C3: the storage fails when the second blob is requested.  The consumer
\* that gets the SourceEnumerationError has by then received exactly the
\* records of the first blob, and the generator never ends normally.
C3_SourceErrorAfterFirstBlob ==
    (loader = "GenericLoader" /\ failAt = 2) =>
        /\ gen.pc # "done"
        /\ err = "SourceEnumerationError" =>
             /\ gen.pc = "raised"
             /\ parse(BlobOf(1)).status = "returned"
             /\ out = parse(BlobOf(1)).docs

C3_Witness ==
    /\ loader = "GenericLoader"
    /\ failAt = 2
    /\ err = "SourceEnumerationError"
    /\ Len(out) = 2

\* C4: the parser fails in blob Bk.  The consumer gets that failure once
\* it has received the records of B1..Bk-1 and those of Bk before the
\* failure; the generator has ended, and whatever is requested afterwards,
\* nothing of Bk+1..Bn is ever received.
C4_ParserFailureStops ==
    loader = "GenericLoader" =>
        LET faulty == Faulty
        IN faulty # {} =>
             LET k == Min(faulty)
                 upto == ConcatParsed(k)
             IN /\ err = "ValidationError" =>
                     /\ gen.pc = "raised"
                     /\ out = upto
                /\ (ended /\ (failAt = 0 \/ failAt > k)) =>
                     err = "ValidationError"
                /\ IsPrefix(out, upto)

\* The first of two blobs is faulty after a good line, the second has
\* records, and the consumer has asked again after the failure.
C4_Witness ==
    /\ loader = "GenericLoader"
    /\ err = "ValidationError"
    /\ Len(listing) = 2
    /\ gen.blobs.i = 1
    /\ Len(out) = 1
    /\ parse(BlobOf(2)).docs # <<>>
    /\ requests > Len(out) + 1

\* C5 (as claimed): after the first record of lazy_load() alone, the
\* payloads of items 2..N are unresolved.
C5_ItemsAfterFirstUnresolved ==
    (/\ loader = "GenericLoader"
     /\ loaded.status = "not called"
     /\ requests = 1
     /\ Len(out) = 1) =>
        \A i \in 2..Len(listing) : resolved[i] = 0

\* C5 (amended): enumerating the blobs resolves no payload, and after the
\* first record of lazy_load() alone, the payloads of the items listed
\* after the one that record was parsed from are unresolved; these are
\* the items 2..N whenever item 1 has a line.
C5_Laziness ==
    /\ loader = "FileSystemBlobLoader" =>
         \A i \in DOMAIN resolved : resolved[i] = 0
    /\ (/\ loader = "GenericLoader"
        /\ loaded.status = "not called"
        /\ requests = 1
        /\ Len(out) = 1) =>
         /\ \A i \in DOMAIN resolved : i > outIdx[1] => resolved[i] = 0
         /\ NumLines(fs[listing[1]]) > 0 => outIdx[1] = 1

C5_Witness ==
    /\ loader = "GenericLoader"
    /\ loaded.status = "not called"
    /\ requests = 1
    /\ Len(out) = 1
    /\ resolved = <<1, 0>>

\* C6: load() against the drained lazy_load() of the same loader.  Once
\* the generator is exhausted, load() has returned the very list of
\* records the consumer received, in the same order; and when the
\* generator ended with an exception, load() raised it too.
C6_LoadIsDrainedLazyLoad ==
    (/\ loader \in {"GenericLoader", "CustomDocumentLoader"}
     /\ loaded.status # "not called"
     /\ ended) =>
        IF gen.pc = "done"
          THEN loaded.status = "returned" /\ loaded.docs = out
          ELSE loaded.status = "raised" /\ loaded.error = err

C6_Witness ==
    /\ loader = "CustomDocumentLoader"
    /\ gen.pc = "done"
    /\ loaded.status = "returned"
    /\ Len(out) = 2

\* C7: idempotence of parse.  Two lazy_parse generators over the same
\* blob, advanced in any order and both run to their end, have yielded
\* the same records in the same order and ended the same way.
C7_ParseIdempotent ==
    (loader = "MyParser" /\ IterEnded(1) /\ IterEnded(2)) =>
        /\ recv[1] = recv[2]
        /\ iters[1].pc = iters[2].pc

C7_Witness ==
    /\ loader = "MyParser"
    /\ iters[1].pc = "done"
    /\ iters[2].pc = "done"
    /\ Len(recv[1]) = 3

\* C8: provenance.  Every record carries under "source" the origin of the
\* blob it was parsed from (None for an in-memory blob), be it received
\* from the parser or through GenericLoader.lazy_load().
C8_Provenance ==
    /\ loader = "MyParser" =>
         \A k \in Iterators : \A j \in 1..Len(recv[k]) :
             recv[k][j].metadata.source = blob.path
    /\ loader = "GenericLoader" =>
         \A j \in 1..Len(out) : out[j].metadata.source = listing[outIdx[j]]

\* Records of two blobs with different origins have been received.
C8_Witness ==
    /\ loader = "GenericLoader"
    /\ Len(out) >= 2
    /\ out[1].metadata.source # out[Len(out)].metadata.source

\* C9 (as claimed): every key/value pair of the blob's metadata is in the
\* metadata of every record parsed from it.
C9_BlobMetadataPropagated ==
    loader = "MyParser" =>
        \A k \in Iterators : \A j \in 1..Len(recv[k]) :
            \A key \in DOMAIN blob.metadata :
                /\ key \in DOMAIN recv[k][j].metadata
                /\ recv[k][j].metadata[key] = blob.metadata[key]

\* C9 (amended): the metadata of a record of the parser has the keys
\* "line_number" and "source" and no other; nothing of the metadata the
\* caller put on the blob is copied into it.
C9_RecordMetadataKeys ==
    loader = "MyParser" =>
        \A k \in Iterators : \A j \in 1..Len(recv[k]) :
            DOMAIN recv[k][j].metadata = {"line_number", "source"}

C9_Witness ==
    /\ loader = "MyParser"
    /\ blob.metadata = FooBar
    /\ Len(recv[1]) >= 1

\* C10: the bytes "a\nb\nc" in memory parse to exactly three records,
\* "a\n", "b\n" and "c", numbered 1, 2, 3; and the k-th record of any
\* parse has line_number k.
C10_ConcreteScenario ==
    loader = "MyParser" =>
        /\ (blob.path = None /\ blob.data = ExampleABC /\ IterEnded(1)) =>
              /\ iters[1].pc = "done"
              /\ recv[1] = << Doc(<<97, LF>>, 1, None),
                              Doc(<<98, LF>>, 2, None),
                              Doc(<<99>>, 3, None) >>
        /\ \A k \in Iterators : \A j \in 1..Len(recv[k]) :
              recv[k][j].metadata.line_number = j

C10_Witness ==
    /\ loader = "MyParser"
    /\ blob.path = None
    /\ blob.data = ExampleABC
    /\ iters[1].pc = "done"

\* C11: sync/async equivalence.  The records received from alazy_load()
\* and those received from lazy_load() of the same CustomDocumentLoader
\* agree as far as both have come, content, metadata and order; and once
\* both are drained they are the same sequence, both ended normally or
\* both failed, at the same position and with the same exception.
C11_SyncAsyncEquivalence ==
    loader = "CustomDocumentLoader" =>
        /\ IsPrefix(recv[2], out) \/ IsPrefix(out, recv[2])
        /\ (ended /\ IterEnded(2)) =>
              /\ recv[2] = out
              /\ iters[2].pc = gen.pc
              /\ errs[2] = err

\* A faulty file: both generators gave one record and then failed.
C11_Witness ==
    /\ loader = "CustomDocumentLoader"
    /\ gen.pc = "raised"
    /\ iters[2].pc = "raised"
    /\ Len(recv[2]) = 1
    /\ errs[2] = "UnicodeDecodeError"

\* C12: pull-based production, no read-ahead.  A lazy_load() generator has
\* given at most as many records as the consumer has asked for, and
\* exactly as many until it ends; a lazy_parse() generator that is
\* suspended has counted exactly the lines the consumer has received.
\* With lazy_load() alone at work, GenericLoader has asked the blob
\* loader for listed item i, or opened its payload, only if the consumer
\* has received every record of the items before it and asked for
\* another; and no payload is opened twice.
C12_PullBased ==
    /\ loader \in Loaders =>
         /\ Len(out) <= requests
         /\ ~ended => Len(out) = requests
    /\ loader = "MyParser" =>
         \A k \in Iterators :
             iters[k].pc = "suspended" => iters[k].line_number = Len(recv[k])
    /\ (loader = "GenericLoader" /\ loaded.status = "not called") =>
         \A i \in 1..Len(listing) :
             /\ resolved[i] <= 1
             /\ (gen.blobs.i >= i \/ resolved[i] > 0) =>
                  LET before == ConcatParsed(i - 1)
                  IN IsPrefix(before, out) /\ requests > Len(before)

\* The second blob has been reached: one record of each received.
C12_Witness ==
    /\ loader = "GenericLoader"
    /\ loaded.status = "not called"
    /\ gen.pc = "parsing"
    /\ outIdx = <<1, 2>>
    /\ requests = 2
    /\ resolved = <<1, 1>>

\* C13: restart after early termination.  Once the consumer has left an
\* iteration of lazy_parse(blob) or lazy_load() before its end, after k
\* records (k = 0 included), and called the operation again, the records
\* of the new iteration are the operation's sequence from its first
\* record on, numbered from the base (1 for the parser, 0 for the
\* loader), and the whole sequence once the iteration has ended: its
\* first record is the first line of the input, and an iteration that
\* has ended normally has given the whole text of the input.  Nothing
\* goes on from where the other stopped.
C13_RestartFromScratch ==
    abandoned.its # {} =>
        LET text == InputText
        IN \A k \in abandoned.its :
               (loader = "MyParser" \/ k = 1) =>
                   LET docs == recv[k]
                       given == Contents(docs)
                   IN /\ IsPrefix(given, text)
                      /\ docs # <<>> =>
                            docs[1].page_content = ReadTextLine(text, 0)
                      /\ \A j \in 1..Len(docs) :
                            LET c == docs[j].page_content
                            IN /\ docs[j].metadata.line_number = Base + j - 1
                               /\ c # <<>>
                               /\ \A i \in 1..(Len(c) - 1) : c[i] # LF
                               /\ c[Len(c)] = LF
                                    \/ (j = Len(docs) /\ given = text)
                      /\ iters[k].pc = "done" => given = text
                      /\ IterEnded(k) => docs = Full(k).docs

\* A lazy_parse(blob) generator was given up before its first record; the
\* iteration of the new call has ended with both records of the payload.
C13_AbandonedBeforeFirst ==
    /\ loader = "MyParser"
    /\ abandoned = [count |-> 1, its |-> {1}, n |-> 0]
    /\ iters[1].pc = "done"
    /\ Len(recv[1]) = 2

\* lazy_load() was left after the first of two records; the iteration of
\* the new call has ended with both.
C13_Witness ==
    /\ loader = "CustomDocumentLoader"
    /\ abandoned = [count |-> 1, its |-> {1}, n |-> 1]
    /\ iters[1].pc = "done"
    /\ Len(recv[1]) = 2

\* C14: no retry and no continuation after a failure.  Once a generator
\* of lazy_load(), alazy_load() or lazy_parse() has raised to its
\* consumer, no step changes it: further requests give no record and no
\* other exception, the generator stays at the failure, and lazy_load()
\* opens no payload again.
C14_NoRetryAfterFailure ==
    [][ /\ err # NoItem =>
             /\ gen' = gen
             /\ out' = out
             /\ err' = err
             /\ loaded' = loaded => resolved' = resolved
        /\ \A k \in DOMAIN errs :
             errs[k] # NoItem =>
                 /\ iters'[k] = iters[k]
                 /\ recv'[k] = recv[k]
                 /\ errs'[k] = errs[k] ]_vars

\* The storage failed after the records of the first blob, and the
\* consumer has asked once more since.
C14_Witness ==
    /\ loader = "GenericLoader"
    /\ err = "SourceEnumerationError"
    /\ Len(out) >= 1
    /\ requests = Len(out) + 2

\* C16 (as claimed): the line-splitting parser never fails.  Whatever the
\* bytes of the payload and the encoding the blob declares, no
\* lazy_parse(blob) generator raises.
C16_ParserNeverFails ==
    loader = "MyParser" =>
        \A k \in Iterators : iters[k].pc # "raised" /\ errs[k] = NoItem

\* What holds instead: the parser fails exactly on payloads with a line
\* that is not UTF-8, at that line; it runs through every payload that is
\* UTF-8, the empty one included.
ParserFailsOnlyOnBadUtf8 ==
    loader = "MyParser" =>
        \A k \in Iterators :
            /\ iters[k].pc = "raised" =>
                  utf8_decode(as_bytes_io(blob)).state # "ok"
            /\ (IterEnded(k) /\ utf8_decode(as_bytes_io(blob)).state # "ok") =>
                  iters[k].pc = "raised"

\* C17: named-constructor equivalence.  MyCustomLoader.from_filesystem(
\* path, glob, show_progress) is bound to the same blob loader and parser
\* as GenericLoader(FileSystemBlobLoader(path, glob, show_progress),
\* MyParser()), and what its lazy_load() gives is at every moment the
\* beginning of the explicit loader's sequence over the same storage, and
\* the whole of it, ended the same way, when the generator has ended.
C17_NamedConstructor ==
    loader = "MyCustomLoader" =>
        LET explicit == ExplicitGenericLoader
        IN /\ gen.self = GenericLoader(FileSystemBlobLoader(FilesystemArgs),
                                       "MyParser")
           /\ IsPrefix(out, explicit.docs)
           /\ ended =>
                 /\ out = explicit.docs
                 /\ err = explicit.error
                 /\ (gen.pc = "done") = (explicit.status = "returned")

\* MyCustomLoader drained over two files, two lines in the first.
C17_Witness ==
    /\ loader = "MyCustomLoader"
    /\ gen.pc = "done"
    /\ outIdx = <<1, 1, 2>>

\* C18: read-only inputs.  No step of any iteration, be it a first or a
\* repeated one, run to the end or left before it, changes the blob
\* (origin, payload, encoding, mime type, attributes) or the files behind
\* it; and no step of lazy_load() changes the blob loader and the parser
\* the GenericLoader is bound to, or what the blob loader lists.
C18_ReadOnlyInputs ==
    [][ /\ blob' = blob
        /\ fs' = fs
        /\ loader \in Generic =>
              /\ gen'.self = gen.self
              /\ listing' = listing ]_vars

\* A blob with attributes parsed three times: once left after a record,
\* once to the end, once half way.
C18_Witness ==
    /\ loader = "MyParser"
    /\ blob.path = None
    /\ blob.metadata = FooBar
    /\ abandoned.count = 1
    /\ iters[1].pc = "done"
    /\ Len(recv[1]) >= 2
    /\ iters[2].pc = "suspended"

\* C19 (as claimed): the drained CustomDocumentLoader has given one record
\* per line of its file, with the file path as source and line_number 0,
\* 1, 2, ...; and MyParser over the same bytes gives records of the same
\* contents in the same order, each line_number greater by exactly 1.
C19_LoaderVsParser ==
    (loader = "CustomDocumentLoader" /\ ended) =>
        LET parsed == ParsedFile
        IN /\ gen.pc = "done"
           /\ Len(out) = NumLines(fs[file_path])
           /\ \A j \in 1..Len(out) :
                 /\ out[j].metadata.source = file_path
                 /\ out[j].metadata.line_number = j - 1
           /\ parsed.status = "returned"
           /\ Len(parsed.docs) = Len(out)
           /\ \A j \in 1..Len(out) :
                 /\ parsed.docs[j].page_content = out[j].page_content
                 /\ parsed.docs[j].metadata.line_number
                       = out[j].metadata.line_number + 1

\* C19 (amended): the same, for a file that is UTF-8 text without CR.
\* Whatever the file, the records the loader gives carry the file path as
\* source and the line numbers 0, 1, 2, ...
C19_LoaderVsParserPlainText ==
    loader = "CustomDocumentLoader" =>
        /\ \A j \in 1..Len(out) :
              /\ out[j].metadata.source = file_path
              /\ out[j].metadata.line_number = j - 1
        /\ PlainText(fs[file_path]) => C19_LoaderVsParser

\* A file of two lines, the second without LF, drained.
C19_Witness ==
    /\ loader = "CustomDocumentLoader"
    /\ gen.pc = "done"
    /\ Len(out) = 2
    /\ out[2].page_content = <<97>>
    /\ PlainText(fs[file_path])

\* C20: independent iterations.  Two lazy_parse(blob) generators of one
\* parser, or two lazy_load() generators of one CustomDocumentLoader,
\* advanced in any interleaving over files that do not change: what each
\* has given is at every moment the beginning of the sequence a generator
\* run alone gives, with the position indices of that place (from 1 for
\* the parser, from 0 for the loader), and all of it, ended the same way,
\* once the generator has ended.
C20_IndependentIterations ==
    /\ loader = "MyParser" =>
         LET alone == parse(blob)
         IN \A k \in Iterators :
                /\ IsPrefix(recv[k], alone.docs)
                /\ \A j \in 1..Len(recv[k]) :
                      recv[k][j].metadata.line_number = j
                /\ IterEnded(k) =>
                      /\ recv[k] = alone.docs
                      /\ (iters[k].pc = "done") = (alone.status = "returned")
    /\ loader = "CustomDocumentLoader" =>
         LET alone == Drain(CustomCreated, <<>>)
         IN /\ IsPrefix(out, alone.docs)
            /\ IsPrefix(recv[1], alone.docs)
            /\ \A j \in 1..Len(out) : out[j].metadata.line_number = j - 1
            /\ \A j \in 1..Len(recv[1]) :
                  recv[1][j].metadata.line_number = j - 1
            /\ ended => out = alone.docs /\ err = alone.error
            /\ IterEnded(1) =>
                  recv[1] = alone.docs /\ errs[1] = alone.error

\* One lazy_load() generator stands after its first record while the
\* other, started later, has run to the end over both records.
C20_Witness ==
    /\ loader = "CustomDocumentLoader"
    /\ abandoned = NoneAbandoned
    /\ gen.pc = "suspended"
    /\ Len(out) = 1
    /\ iters[1].pc = "done"
    /\ Len(recv[1]) = 2

\* C21: per-blob numbering in the composition.  In what lazy_load() of a
\* GenericLoader with MyParser has given, the first record of each blob
\* has line_number 1 and every other record the line_number of the record
\* before it plus 1; and when the listed blobs have pairwise distinct
\* origins, no two records have the same (source, line_number).
C21_PerBlobNumbering ==
    loader = "GenericLoader" =>
        /\ \A j \in 1..Len(out) :
              out[j].metadata.line_number =
                  IF j = 1 \/ outIdx[j - 1] # outIdx[j]
                    THEN 1
                    ELSE out[j - 1].metadata.line_number + 1
        /\ (\A a, b \in 1..Len(listing) : a # b => listing[a] # listing[b]) =>
              \A i, j \in 1..Len(out) :
                  i # j =>
                      <<out[i].metadata.source, out[i].metadata.line_number>>
                        # <<out[j].metadata.source, out[j].metadata.line_number>>

\* Two records of the first blob, numbered 1 and 2, and the first record
\* of a second blob of another origin, numbered 1 again.
C21_Witness ==
    /\ loader = "GenericLoader"
    /\ Len(listing) = 2
    /\ listing[1] # listing[2]
    /\ Len(out) = 3
    /\ out[2].metadata.line_number = 2
    /\ out[3].metadata.line_number = 1
    /\ out[3].metadata.source = listing[2]

\* C22: eager load is all-or-nothing.  load() that has raised has
\* returned no list; and when the lazy_load() generator of the same
\* loader has raised after k records, load() has raised the same
\* exception and delivered none of the k records, while the consumer of
\* lazy_load() holds all k of them.
C22_LoadAllOrNothing ==
    (/\ loader \in Generic \cup {"CustomDocumentLoader"}
     /\ loaded.status # "not called") =>
        /\ loaded.status = "raised" =>
              loaded.docs = NoItem /\ loaded.error # NoItem
        /\ loaded.status = "returned" => loaded.error = NoItem
        /\ gen.pc = "raised" =>
              /\ loaded.status = "raised"
              /\ loaded.docs = NoItem
              /\ loaded.error = err
              /\ out = LazilyLoaded.docs

\* lazy_load() raised after one record, which the consumer holds; load()
\* has raised too.
C22_Witness ==
    /\ loader = "CustomDocumentLoader"
    /\ gen.pc = "raised"
    /\ Len(out) = 1
    /\ loaded.status = "raised"
    /\ loaded.docs = NoItem

\* The sum over the first n listed blobs of their number of lines.
RECURSIVE SumLines(_)
SumLines(n) ==
    IF n = 0 THEN 0 ELSE SumLines(n - 1) + NumLines(fs[listing[n]])

\* C23 (as claimed): termination and count.  Over a listing that is
\* enumerated without failure, whatever the payloads, the generator of
\* GenericLoader.lazy_load() never raises; the consumer never holds more
\* records than the sum of the blobs' numbers of lines; the request after
\* that many records finds the generator exhausted; and at exhaustion the
\* consumer holds exactly that many records.
C23_TerminationAndCount ==
    (loader = "GenericLoader" /\ failAt = 0) =>
        LET total == SumLines(Len(listing))
        IN /\ gen.pc # "raised"
           /\ Len(out) <= total
           /\ requests > total => gen.pc = "done"
           /\ gen.pc = "done" => Len(out) = total

\* What holds instead: the same when every listed payload is UTF-8; then
\* an empty blob contributes no record and the blobs after it contribute
\* all of theirs.
TerminationAndCountOfUtf8Payloads ==
    (loader = "GenericLoader" /\ failAt = 0 /\ Faulty = {}) =>
        /\ C23_TerminationAndCount
        /\ gen.pc = "done" =>
              \A i \in 1..Len(listing) :
                  Cardinality({j \in 1..Len(out) : outIdx[j] = i})
                    = NumLines(fs[listing[i]])

\* An empty blob before a blob of two lines: the iteration went on to
\* the second blob and ended after its two records.
EmptyBlobDoesNotStop ==
    /\ loader = "GenericLoader" /\ failAt = 0
    /\ Len(listing) = 2 /\ fs[listing[1]] = <<>>
    /\ gen.pc = "done" /\ Len(out) = 2 /\ outIdx = <<2, 2>>

====
